---------------------------- MODULE Spec2Model ----------------------------
(***************************************************************************)
(* Model of specutils/manipulation/utils.py: linear_exciser,               *)
(* excise_region, excise_regions and spectrum_from_model.                  *)
(*                                                                         *)
(* Conventions.                                                            *)
(*  - Arrays are TLA+ sequences, so indices are 1-based: the code's index  *)
(*    k is k+1 here.  max(first-1, 0) becomes Max(first-1, 1) and          *)
(*    min(last+1, size-1) becomes Min(last+1, size); the slice [s:e] of    *)
(*    the code covers the model's indices s .. e-1 and has e-s elements.   *)
(*  - Flux magnitudes are exact rationals <<num, den>> in lowest terms     *)
(*    with den > 0 (floating-point rounding is not represented).           *)
(*  - Flux arrays live in `heap`; a spectrum object holds the index of its *)
(*    flux array, so that two objects can share one array.                 *)
(***************************************************************************)
EXTENDS Integers, Sequences, FiniteSets

(* ------------------------------ bounds --------------------------------- *)
\* longest spectrum (number of samples)
MaxN == 3
\* largest wavelength value of the single-call specification
MaxWl == 4
\* flux magnitudes of the inputs are 0 .. MaxFlux
MaxFlux == 1
\* longest list of regions handed to excise_regions
MaxRegions == 2

(* ------------------------------ helpers -------------------------------- *)
Max(a, b) == IF a >= b THEN a ELSE b

Min(a, b) == IF a <= b THEN a ELSE b

Abs(a) == IF a < 0 THEN -a ELSE a

SetMin(S) == CHOOSE x \in S : \A y \in S : x <= y

SetMax(S) == CHOOSE x \in S : \A y \in S : x >= y

RECURSIVE GCD(_, _)
GCD(a, b) == IF b = 0 THEN a ELSE GCD(b, a % b)

\* the rational n/d (d # 0) in lowest terms with a positive denominator
Rat(n, d) ==
    LET g == GCD(Abs(n), Abs(d))
        sg == IF d < 0 THEN -1 ELSE 1
    IN  << (sg * n) \div g, (sg * d) \div g >>

RatInt(n) == << n, 1 >>

RatSub(x, y) == Rat(x[1] * y[2] - y[1] * x[2], x[2] * y[2])

RatAdd(x, y) == Rat(x[1] * y[2] + y[1] * x[2], x[2] * y[2])

\* x * k / d for integers k and d, d > 0
RatScale(x, k, d) == Rat(x[1] * k, x[2] * d)

RatLeq(x, y) == x[1] * y[2] <= y[1] * x[2]

(* ----------------------------- data model ------------------------------ *)
None == [kind |-> "None"]

\* a value that is not a Spectrum1D
NotSpectrum == [kind |-> "NotSpectrum1D"]

\* a value that is not a SpectralRegion
NotRegion == [kind |-> "NotSpectralRegion"]

SpectralRegion(lower, upper) ==
    [kind |-> "SpectralRegion", lower |-> lower, upper |-> upper]

\* the Spectrum1D constructor: the object keeps what it is given; flux is
\* the index in the heap of the object's flux array
Spectrum1D(flux, axis, axis_unit, uncertainty, wcs, unit, convention, rest) ==
    [kind |-> "Spectrum1D", flux |-> flux, spectral_axis |-> axis,
     spectral_unit |-> axis_unit, uncertainty |-> uncertainty,
     wcs |-> wcs, unit |-> unit,
     velocity_convention |-> convention, rest_value |-> rest]

\* uncertainty=None: the spectrum carries no uncertainty
NoUncertainty == "None"

\* isinstance(x, Spectrum1D)
IsSpectrum1D(x) == x.kind = "Spectrum1D"

\* isinstance(x, SpectralRegion)
IsSpectralRegion(x) == x.kind = "SpectralRegion"

\* spectrum.flux.value: a view of the spectrum's flux array, not a copy
\* (the array is shared with the spectrum object)
flux_value(spectrum) == spectrum.flux

(* --------------------------- linear_exciser ---------------------------- *)
\* (wavelengths >= region.lower) & (wavelengths < region.upper)
wavelengths_in(wavelengths, region) ==
    [k \in 1..Len(wavelengths) |->
        wavelengths[k] >= region.lower /\ wavelengths[k] < region.upper]

\* np.nonzero(wavelengths_in)[0], as the set of the matched indices
inclusive_indices(wavelengths, region) ==
    {k \in 1..Len(wavelengths) : wavelengths_in(wavelengths, region)[k]}

\* mutant of s_index: the range is extended by two samples to the left
s_index_wide(first) == Max(first - 2, 1)

\* s = max(inclusive_indices[0]-1, 0)
s_index(first) == Max(first - 1, 1)

\* e = min(inclusive_indices[-1]+1, wavelengths.size-1)
e_index(last, size) == Min(last + 1, size)

\* mutant of linspace: the ramp runs from stop to start
linspace_swapped(start, stop, num) ==
    [k \in 1..num |->
        IF num = 1 THEN stop
        ELSE RatAdd(stop, RatScale(RatSub(start, stop), k - 1, num - 1))]

\* mutant of linspace: the step is subtracted instead of added
linspace_descending(start, stop, num) ==
    [k \in 1..num |->
        IF num = 1 THEN start
        ELSE RatSub(start, RatScale(RatSub(stop, start), k - 1, num - 1))]

\* np.linspace(start, stop, num): num evenly spaced samples, the first
\* start and (for num > 1) the last stop
linspace(start, stop, num) ==
    [k \in 1..num |->
        IF num = 1 THEN start
        ELSE RatAdd(start, RatScale(RatSub(stop, start), k - 1, num - 1))]

\* the number of elements of modified_flux[s:e]
slice_size(s, e) == e - s

\* modified_flux[s:e] = values
slice_assign(flux, s, e, values) ==
    [k \in 1..Len(flux) |->
        IF s <= k /\ k < e THEN values[k - s + 1] ELSE flux[k]]

\* mutant of linear_exciser: a region that matches no sample is ignored
\* and the spectrum handed back
linear_exciser_lenient(h, spectrum, region) ==
    LET wavelengths == spectrum.spectral_axis
        idx == inclusive_indices(wavelengths, region)
        s == s_index(SetMin(idx))
        e == e_index(SetMax(idx), Len(wavelengths))
        flux == h[spectrum.flux]
        modified_flux ==
            slice_assign(flux, s, e,
                         linspace(flux[s], flux[e], slice_size(s, e)))
        h2 == Append([h EXCEPT ![spectrum.flux] = modified_flux],
                     modified_flux)
    IN  IF idx = {}
        THEN [heap |-> h, ret |-> spectrum, error |-> "none",
              invoked |-> << >>]
        ELSE [heap |-> h2, ret |-> [spectrum EXCEPT !.flux = Len(h2)],
              error |-> "none", invoked |-> << >>]

\* the outcome of a call: the heap after it, the value returned, the error
\* raised and the exciser invocations made
Outcome(h, ret, error, invoked) ==
    [heap |-> h, ret |-> ret, error |-> error, invoked |-> invoked]

linear_exciser(h, spectrum, region) ==
    LET wavelengths == spectrum.spectral_axis
        idx == inclusive_indices(wavelengths, region)
    IN  IF idx = {}
        THEN \* inclusive_indices[0] on an empty array
             Outcome(h, None, "IndexError", << >>)
        ELSE LET s == s_index(SetMin(idx))
                 e == e_index(SetMax(idx), Len(wavelengths))
                 ref == flux_value(spectrum)
                 flux == h[ref]
                 modified_flux ==
                     slice_assign(flux, s, e,
                                  linspace(flux[s], flux[e], slice_size(s, e)))
                 \* the assignment writes through the view
                 h1 == [h EXCEPT ![ref] = modified_flux]
                 \* modified_flux*spectrum.flux.unit is a new array
                 h2 == Append(h1, modified_flux)
             IN  Outcome(h2,
                         Spectrum1D(Len(h2), wavelengths,
                                    spectrum.spectral_unit,
                                    spectrum.uncertainty, spectrum.wcs,
                                    spectrum.unit,
                                    spectrum.velocity_convention,
                                    spectrum.rest_value),
                         "none", << >>)

(* ------------------------ a user-supplied exciser ---------------------- *)
\* an exciser other than the default: it returns a new spectrum whose flux
\* is zero over the matched samples and leaves its argument alone; when no
\* sample matches it returns None
zero_exciser(h, spectrum, region) ==
    LET idx == inclusive_indices(spectrum.spectral_axis, region)
        flux == h[spectrum.flux]
        zeroed == [k \in 1..Len(flux) |->
                      IF k \in idx THEN RatInt(0) ELSE flux[k]]
        h2 == Append(h, zeroed)
    IN  IF idx = {}
        THEN Outcome(h, None, "none", << >>)
        ELSE Outcome(h2, [spectrum EXCEPT !.flux = Len(h2)], "none", << >>)

Excisers == {"linear_exciser", "zero_exciser"}

\* exciser(spectrum, region)
call_exciser(exciser, h, spectrum, region) ==
    LET r == IF exciser = "linear_exciser"
             THEN linear_exciser(h, spectrum, region)
             ELSE zero_exciser(h, spectrum, region)
    IN  [r EXCEPT !.invoked = << [spectrum |-> spectrum, region |-> region] >>]

(* ---------------------------- excise_region ---------------------------- *)
\* mutant of excise_region: a wrong type is reported as a type error
excise_region_typeerror(h, spectrum, region, exciser) ==
    IF ~IsSpectrum1D(spectrum) \/ ~IsSpectralRegion(region)
    THEN Outcome(h, None, "TypeError", << >>)
    ELSE call_exciser(exciser, h, spectrum, region)

excise_region(h, spectrum, region, exciser) ==
    IF ~IsSpectrum1D(spectrum)
    THEN Outcome(h, None, "ValueError", << >>)
    ELSE IF ~IsSpectralRegion(region)
    THEN Outcome(h, None, "ValueError", << >>)
    ELSE call_exciser(exciser, h, spectrum, region)


(* ------------------------- spectrum_from_model ------------------------- *)
\* the magnitude of a wavelength given in `unit`, expressed in Angstrom:
\* what a unit-aware model computes with
to_angstrom(x, unit) == IF unit = "nm" THEN 10 * x ELSE x

\* the model's function of a bare number: c0 + c1 * x
model_function(model_input, x) == model_input.c0 + model_input.c1 * x

\* model_input(spectrum.spectral_axis): the model is given the axis with
\* its unit, converts it to its own unit and returns a quantity
model_on_quantity(model_input, spectral_axis, spectral_unit) ==
    [value |-> [k \in 1..Len(spectral_axis) |->
                   RatInt(model_function(model_input,
                              to_angstrom(spectral_axis[k], spectral_unit)))],
     unit |-> model_input.return_unit]

\* model_input(spectrum.spectral_axis.value)*spectrum.flux.unit: the model
\* is given the bare magnitudes
model_on_value(model_input, spectral_axis, flux_unit) ==
    [value |-> [k \in 1..Len(spectral_axis) |->
                   RatInt(model_function(model_input, spectral_axis[k]))],
     unit |-> flux_unit]

\* mutant of spectrum_from_model: the input's uncertainty is passed on
spectrum_from_model_keeps_uncertainty(h, model_input, spectrum) ==
    LET flux == IF model_input.uses_quantity
                THEN model_on_quantity(model_input, spectrum.spectral_axis,
                                       spectrum.spectral_unit)
                ELSE model_on_value(model_input, spectrum.spectral_axis,
                                    spectrum.unit)
        h2 == Append(h, flux.value)
    IN  Outcome(h2,
                Spectrum1D(Len(h2), spectrum.spectral_axis,
                           spectrum.spectral_unit, spectrum.uncertainty,
                           spectrum.wcs, flux.unit,
                           spectrum.velocity_convention, spectrum.rest_value),
                "none", << >>)

\* mutant of spectrum_from_model: the test of uses_quantity is inverted
spectrum_from_model_inverted(h, model_input, spectrum) ==
    LET flux == IF ~model_input.uses_quantity
                THEN model_on_quantity(model_input, spectrum.spectral_axis,
                                       spectrum.spectral_unit)
                ELSE model_on_value(model_input, spectrum.spectral_axis,
                                    spectrum.unit)
        h2 == Append(h, flux.value)
    IN  Outcome(h2,
                Spectrum1D(Len(h2), spectrum.spectral_axis,
                           spectrum.spectral_unit, NoUncertainty,
                           spectrum.wcs, flux.unit,
                           spectrum.velocity_convention, spectrum.rest_value),
                "none", << >>)

spectrum_from_model(h, model_input, spectrum) ==
    LET flux == IF model_input.uses_quantity
                THEN model_on_quantity(model_input, spectrum.spectral_axis,
                                       spectrum.spectral_unit)
                ELSE model_on_value(model_input, spectrum.spectral_axis,
                                    spectrum.unit)
        h2 == Append(h, flux.value)
    IN  \* no uncertainty argument: the constructor's default, None
        Outcome(h2,
                Spectrum1D(Len(h2), spectrum.spectral_axis,
                           spectrum.spectral_unit, NoUncertainty, spectrum.wcs,
                           flux.unit, spectrum.velocity_convention,
                           spectrum.rest_value),
                "none", << >>)

(* ------------------------------- inputs -------------------------------- *)
\* strictly increasing sequences of n wavelengths out of 1..top
Increasing(n, top) ==
    {w \in [1..n -> 1..top] : \A k \in 1..(n - 1) : w[k] < w[k + 1]}

Reversed(w) == [k \in 1..Len(w) |-> w[Len(w) + 1 - k]]

\* monotonic wavelength axes, increasing or decreasing
Monotonic(n, top) ==
    Increasing(n, top) \cup {Reversed(w) : w \in Increasing(n, top)}

\* the evenly spaced axis 1, 2, .., n
Grid(n) == [k \in 1..n |-> k]

\* flux arrays of n samples with magnitudes out of vals
FluxArrays(n, vals) == [1..n -> {RatInt(v) : v \in vals}]

\* regions [lower, upper) with bounds out of lo..hi
RegionsIn(lo, hi) ==
    {SpectralRegion(b[1], b[2]) :
        b \in {c \in (lo..hi) \X (lo..hi) : c[1] < c[2]}}

\* what may be handed over as the region of a call on `sp`
RegionArgs(sp, top) ==
    {NotRegion} \cup
    (IF IsSpectrum1D(sp) THEN RegionsIn(0, top + 1) ELSE RegionsIn(0, 1))

\* lists of at most n elements of S
ListsUpTo(S, n) == UNION {[1..m -> S] : m \in 0..n}

Models ==
    [uses_quantity : BOOLEAN, c0 : {0, 1}, c1 : {1, 2},
     return_unit : {"Jy", "mJy"}]

NoModel == [kind |-> "None"]

(* -------------------------------- state -------------------------------- *)
VARIABLES
    pc,        \* "idle": before the call, "loop": in the loop of
               \* excise_regions, "done": the call has ended
    heap,      \* the flux arrays
    spectrum,  \* the caller's object, the spectrum argument of the call
    op,        \* the function called
    regions,   \* the region arguments (one element for a single region)
    exciser,   \* the exciser argument
    model,     \* the model_input argument
    cur,       \* the local variable `spectrum` of excise_regions
    i,         \* the position of the loop of excise_regions in regions
    result,    \* the value returned, None before the end and on an error
    error,     \* the exception raised, "none" without one
    errAt,     \* the position in regions where it was raised (0: before)
    calls,     \* the arguments of every exciser invocation made so far
    flux0      \* the caller's flux array as it was before the call

vars == << pc, heap, spectrum, op, regions, exciser, model, cur, i, result,
           error, errAt, calls, flux0 >>

\* the state before a call on spectrum sp with flux array f
Before(sp, f) ==
    /\ pc = "idle"
    /\ spectrum = sp
    /\ heap = IF IsSpectrum1D(sp) THEN << f >> ELSE << >>
    /\ flux0 = f
    /\ op = "none"
    /\ regions = << >>
    /\ exciser = "none"
    /\ model = NoModel
    /\ cur = None
    /\ i = 0
    /\ result = None
    /\ error = "none"
    /\ errAt = 0
    /\ calls = << >>

\* single-region calls: any monotonic axis
Init ==
    \/ \E n \in 1..MaxN : \E w \in Monotonic(n, MaxWl) : \E f \in FluxArrays(n, 0..MaxFlux) :
          Before(Spectrum1D(1, w, "nm", "unc", "wcs", "Jy", "vc", "rv"), f)
    \/ Before(NotSpectrum, << >>)

\* region lists: the evenly spaced axis, flux magnitudes 0 and 1
InitRegions ==
    \/ \E n \in 1..MaxN : \E f \in FluxArrays(n, {0, 1}) :
          Before(Spectrum1D(1, Grid(n), "nm", "unc", "wcs", "Jy", "vc", "rv"), f)
    \/ Before(NotSpectrum, << >>)

\* spectrum_from_model: every combination of metadata
InitModel ==
    \E n \in 1..MaxN : \E f \in FluxArrays(n, 0..MaxFlux) :
    \E su \in {"nm", "AA"}, unc \in {NoUncertainty, "unc"}, wcs \in {"wcs1", "wcs2"},
       u \in {"Jy", "mJy"}, vc \in {"optical", "radio"}, rv \in {"rv1", "rv2"} :
          Before(Spectrum1D(1, Grid(n), su, unc, wcs, u, vc, rv), f)

(* ------------------------------- actions ------------------------------- *)
\* a call that ends in one step with outcome r
Finish(name, rs, ex, r) ==
    /\ pc' = "done"
    /\ op' = name
    /\ regions' = rs
    /\ exciser' = ex
    /\ heap' = r.heap
    /\ result' = r.ret
    /\ error' = r.error
    /\ errAt' = IF r.error = "none" THEN 0 ELSE 1
    /\ calls' = calls \o r.invoked
    /\ UNCHANGED << spectrum, model, cur, i, flux0 >>

\* linear_exciser(spectrum, region) called directly
CallLinearExciser ==
    /\ pc = "idle"
    /\ IsSpectrum1D(spectrum)
    /\ \E region \in RegionArgs(spectrum, MaxWl) \ {NotRegion} :
          Finish("linear_exciser", << region >>, "linear_exciser",
                 linear_exciser(heap, spectrum, region))

\* excise_region(spectrum, region, exciser)
CallExciseRegion ==
    /\ pc = "idle"
    /\ \E region \in RegionArgs(spectrum, MaxWl), ex \in Excisers :
          Finish("excise_region", << region >>, ex,
                 excise_region(heap, spectrum, region, ex))

\* mutant of for_region: the list is walked from its end
for_region_reversed(rs, k) == rs[Len(rs) + 1 - k]

\* `for region in regions`: the region of the i-th iteration
for_region(rs, k) == rs[k]

\* excise_regions(spectrum, regions, exciser) with regions out of lists:
\* the parameter check
ExciseRegionsCall(lists) ==
    /\ pc = "idle"
    /\ \E rs \in lists, ex \in Excisers :
          /\ op' = "excise_regions"
          /\ regions' = rs
          /\ exciser' = ex
          /\ IF ~IsSpectrum1D(spectrum)
             THEN /\ pc' = "done"
                  /\ error' = "ValueError"
                  /\ UNCHANGED << cur, i >>
             ELSE /\ pc' = "loop"
                  /\ cur' = spectrum
                  /\ i' = 1
                  /\ UNCHANGED error
    /\ UNCHANGED << heap, spectrum, model, result, errAt, calls, flux0 >>

\* excise_regions: spectrum = excise_region(spectrum, region, exciser)
ExciseRegionsIter ==
    /\ pc = "loop"
    /\ i <= Len(regions)
    /\ LET r == excise_region(heap, cur, for_region(regions, i), exciser)
       IN  /\ heap' = r.heap
           /\ calls' = calls \o r.invoked
           /\ IF r.error # "none"
              THEN /\ pc' = "done"
                   /\ error' = r.error
                   /\ errAt' = i
                   /\ UNCHANGED << cur, i >>
              ELSE /\ cur' = r.ret
                   /\ i' = i + 1
                   /\ UNCHANGED << pc, error, errAt >>
    /\ UNCHANGED << spectrum, op, regions, exciser, model, result, flux0 >>

\* excise_regions: return spectrum
ExciseRegionsReturn ==
    /\ pc = "loop"
    /\ i > Len(regions)
    /\ pc' = "done"
    /\ result' = cur
    /\ UNCHANGED << heap, spectrum, op, regions, exciser, model, cur, i,
                    error, errAt, calls, flux0 >>

\* spectrum_from_model(model_input, spectrum)
CallSpectrumFromModel ==
    /\ pc = "idle"
    /\ IsSpectrum1D(spectrum)
    /\ \E m \in Models :
          LET r == spectrum_from_model(heap, m, spectrum)
          IN  /\ model' = m
              /\ pc' = "done"
              /\ op' = "spectrum_from_model"
              /\ heap' = r.heap
              /\ result' = r.ret
              /\ UNCHANGED << spectrum, regions, exciser, cur, i, error,
                              errAt, calls, flux0 >>

\* excise_regions on a list of at most MaxRegions regions
CallExciseRegions ==
    ExciseRegionsCall(
        ListsUpTo(RegionArgs(spectrum,
                             IF IsSpectrum1D(spectrum)
                             THEN Len(spectrum.spectral_axis) ELSE 0),
                  MaxRegions))

\* excise_regions on the empty list or on one region
CallExciseRegionsOne ==
    ExciseRegionsCall(ListsUpTo(RegionArgs(spectrum, MaxWl), 1))

Next ==
    CallLinearExciser \/ CallExciseRegion \/ CallExciseRegionsOne
        \/ ExciseRegionsIter \/ ExciseRegionsReturn

NextRegions ==
    CallExciseRegion \/ CallExciseRegions \/ ExciseRegionsIter
        \/ ExciseRegionsReturn

NextModel == CallSpectrumFromModel

Spec == Init /\ [][Next]_vars

SpecRegions == InitRegions /\ [][NextRegions]_vars

SpecModel == InitModel /\ [][NextModel]_vars

(* ------------------------ vocabulary of the claims --------------------- *)
\* the call has ended
Done == pc = "done"

\* the single region of a call on one region
TheRegion == regions[1]

\* a call on one region of the right type, of a spectrum of the right type,
\* that went to linear_exciser, has ended
LinearCall ==
    /\ Done
    /\ op \in {"linear_exciser", "excise_region", "excise_regions"}
    /\ exciser = "linear_exciser"
    /\ IsSpectrum1D(spectrum)
    /\ Len(regions) = 1
    /\ IsSpectralRegion(TheRegion)

\* the indices of the samples the region matches
Matched == inclusive_indices(spectrum.spectral_axis, TheRegion)

FirstMatched == SetMin(Matched)

LastMatched == SetMax(Matched)

\* the bounds-clamped extended range of the claims
RangeS == Max(FirstMatched - 1, 1)

RangeE == Min(LastMatched + 1, Len(spectrum.spectral_axis))

\* the region lies inside the range of the wavelengths
FullyInside ==
    LET w == spectrum.spectral_axis
        lo == Min(w[1], w[Len(w)])
        hi == Max(w[1], w[Len(w)])
    IN  TheRegion.lower >= lo /\ TheRegion.upper <= hi

\* the flux array of the spectrum returned
NewFlux == heap[result.flux]

\* x lies between a and b, whichever is larger
Between(x, a, b) ==
    \/ RatLeq(a, x) /\ RatLeq(x, b)
    \/ RatLeq(b, x) /\ RatLeq(x, a)

\* sequentially applying excise_region to rs[k], rs[k+1], .. in order,
\* starting from spectrum sp and heap h
RECURSIVE Thread(_, _, _, _, _)
Thread(h, sp, rs, ex, k) ==
    IF k > Len(rs)
    THEN [heap |-> h, ret |-> sp, error |-> "none", at |-> 0]
    ELSE LET r == excise_region(h, sp, rs[k], ex)
         IN  IF r.error # "none"
             THEN [heap |-> r.heap, ret |-> None, error |-> r.error, at |-> k]
             ELSE Thread(r.heap, r.ret, rs, ex, k + 1)

(* -------------------------------- claims ------------------------------- *)
\* C1: after linear_exciser on a region that matches a sample and lies
\* inside the wavelength range, the flux over the extended range s..e is
\* monotonic (non-decreasing when the original flux[s] <= flux[e],
\* non-increasing otherwise) and every value of it lies between the
\* original flux[s] and flux[e].
C1_MonotonicRamp ==
    (LinearCall /\ Matched # {} /\ FullyInside) =>
        /\ error = "none"
        /\ IF RatLeq(flux0[RangeS], flux0[RangeE])
           THEN \A k \in RangeS..(RangeE - 1) : RatLeq(NewFlux[k], NewFlux[k + 1])
           ELSE \A k \in RangeS..(RangeE - 1) : RatLeq(NewFlux[k + 1], NewFlux[k])
        /\ \A k \in RangeS..RangeE :
              Between(NewFlux[k], flux0[RangeS], flux0[RangeE])

\* a region inside the range was excised over a range of three samples
\* with different boundary values, and the flux changed
C1_Witness ==
    /\ LinearCall /\ Matched # {} /\ FullyInside
    /\ op = "linear_exciser"
    /\ RangeE - RangeS >= 2
    /\ flux0[RangeS] # flux0[RangeE]
    /\ NewFlux # flux0

\* C2: no transform mutates its input: the flux array held by the caller's
\* spectrum after the call equals the one it held before the call.
C2_InputNotMutated ==
    (Done /\ IsSpectrum1D(spectrum)) => heap[spectrum.flux] = flux0

\* C3: the result of an excision with linear_exciser has as many samples
\* as the input, the same wavelengths, and a flux that differs from the
\* input's only at samples whose wavelength lies in the region; outside the
\* matched index range the flux is unchanged.
C3_OnlyMatchedChange ==
    (LinearCall /\ Matched # {}) =>
        /\ error = "none"
        /\ IsSpectrum1D(result)
        /\ result.spectral_axis = spectrum.spectral_axis
        /\ Len(NewFlux) = Len(flux0)
        /\ Len(NewFlux) = Len(result.spectral_axis)
        /\ \A k \in 1..Len(flux0) :
              NewFlux[k] # flux0[k] =>
                  /\ spectrum.spectral_axis[k] >= TheRegion.lower
                  /\ spectrum.spectral_axis[k] < TheRegion.upper
        /\ \A k \in 1..Len(flux0) :
              (k < FirstMatched \/ k > LastMatched) => NewFlux[k] = flux0[k]

\* an excision through excise_region changed the flux of a matched sample
C3_Witness ==
    /\ LinearCall /\ Matched # {}
    /\ op = "excise_region"
    /\ \E k \in Matched : NewFlux[k] # flux0[k]

\* C4: excise_regions on a list of regions has the same outcome (the same
\* spectrum, or the same error at the same region) as applying
\* excise_region to each region in list order; on the empty list the
\* result is the input spectrum, unchanged.
C4_SameAsSequential ==
    (Done /\ op = "excise_regions" /\ IsSpectrum1D(spectrum)) =>
        LET t == Thread(<< flux0 >>, spectrum, regions, exciser, 1)
        IN  /\ error = t.error
            /\ errAt = t.at
            /\ result = t.ret
            /\ heap = t.heap
            /\ regions = << >> =>
                  /\ result = spectrum
                  /\ error = "none"
                  /\ heap = << flux0 >>

\* excise_regions returned after two different regions, flux changed
C4_Witness ==
    /\ Done /\ op = "excise_regions" /\ IsSpectrum1D(spectrum)
    /\ Len(regions) = 2
    /\ regions[1] # regions[2]
    /\ error = "none"
    /\ IsSpectrum1D(result)
    /\ NewFlux # flux0

\* C5: when the region matches no sample, linear_exciser ends in an index
\* error and returns no spectrum, called directly or through excise_region
\* or excise_regions with the default exciser.
C5_NoMatchRaises ==
    (LinearCall /\ Matched = {}) =>
        /\ error = "IndexError"
        /\ result = None

\* excise_regions ended in the index error on a region inside the
\* wavelength range that falls between two samples
C5_Witness ==
    /\ LinearCall /\ Matched = {}
    /\ op = "excise_regions"
    /\ FullyInside
    /\ error = "IndexError"

\* the position of the first element of the list that is not a region
\* (0 when all are)
FirstNotRegion ==
    LET bad == {k \in 1..Len(regions) : ~IsSpectralRegion(regions[k])}
    IN  IF bad = {} THEN 0 ELSE SetMin(bad)

\* C6: excise_region raises a value error, without invoking the exciser,
\* when the spectrum or the region is of the wrong type; excise_regions
\* raises a value error when the spectrum is of the wrong type (also on the
\* empty list) and when it reaches a list element of the wrong type; the
\* exciser is never invoked on a spectrum or region of the wrong type.
C6_TypeValidation ==
    /\ (Done /\ op = "excise_region"
          /\ (~IsSpectrum1D(spectrum) \/ ~IsSpectralRegion(TheRegion))) =>
           (error = "ValueError" /\ result = None /\ calls = << >>)
    /\ (op = "excise_regions" /\ ~IsSpectrum1D(spectrum)) =>
           (Done /\ error = "ValueError" /\ result = None /\ calls = << >>)
    /\ (Done /\ op = "excise_regions" /\ IsSpectrum1D(spectrum)
          /\ FirstNotRegion # 0) =>
           /\ error # "none"
           /\ result = None
           /\ errAt <= FirstNotRegion
           /\ errAt = FirstNotRegion => error = "ValueError"
    /\ \A k \in 1..Len(calls) :
           IsSpectrum1D(calls[k].spectrum) /\ IsSpectralRegion(calls[k].region)

\* excise_regions excised one region and then raised the value error at a
\* second element that is not a region
C6_Witness ==
    /\ Done /\ op = "excise_regions" /\ IsSpectrum1D(spectrum)
    /\ Len(regions) = 2
    /\ FirstNotRegion = 2
    /\ errAt = 2
    /\ error = "ValueError"
    /\ Len(calls) = 1

\* C7: the spectrum returned by spectrum_from_model has the input's
\* wavelength axis, no uncertainty, and the input's wcs, velocity
\* convention and rest value.
C7_AxisAndMetadata ==
    (Done /\ op = "spectrum_from_model") =>
        /\ IsSpectrum1D(result)
        /\ result.spectral_axis = spectrum.spectral_axis
        /\ result.spectral_unit = spectrum.spectral_unit
        /\ result.uncertainty = NoUncertainty
        /\ result.wcs = spectrum.wcs
        /\ result.velocity_convention = spectrum.velocity_convention
        /\ result.rest_value = spectrum.rest_value

\* spectrum_from_model returned for an input that has an uncertainty
C7_Witness ==
    /\ Done /\ op = "spectrum_from_model"
    /\ spectrum.uncertainty = "unc"
    /\ result.uncertainty = NoUncertainty
    /\ Len(spectrum.spectral_axis) = MaxN

\* C8: for a unit-aware model the output flux is the model evaluated on
\* the wavelength axis with its unit, in the unit the model returns; for a
\* model that is not unit-aware it is the model evaluated on the bare
\* wavelength magnitudes, in the input's flux unit.  The input's flux
\* values play no part.
C8_FluxFromModel ==
    (Done /\ op = "spectrum_from_model") =>
        LET w == spectrum.spectral_axis
        IN  /\ Len(NewFlux) = Len(w)
            /\ IF model.uses_quantity
               THEN /\ \A k \in 1..Len(w) :
                          NewFlux[k] =
                              RatInt(model.c0 + model.c1 *
                                  (IF spectrum.spectral_unit = "nm"
                                   THEN 10 * w[k] ELSE w[k]))
                    /\ result.unit = model.return_unit
               ELSE /\ \A k \in 1..Len(w) :
                          NewFlux[k] = RatInt(model.c0 + model.c1 * w[k])
                    /\ result.unit = spectrum.unit

\* a model that is not unit-aware was evaluated on an axis whose unit is
\* not the model's, for an input whose flux unit is not the model's
C8_Witness ==
    /\ Done /\ op = "spectrum_from_model"
    /\ ~model.uses_quantity
    /\ spectrum.spectral_unit = "nm"
    /\ spectrum.unit # model.return_unit
    /\ NewFlux # flux0

\* C9: for n >= 2 samples and a region matching a sample, the new flux
\* over s..e is linearly spaced from the original flux[s] to the original
\* flux[e]: the ends keep their values and all consecutive differences
\* are equal.
C9_LinearlySpaced ==
    (LinearCall /\ Matched # {} /\ Len(flux0) >= 2) =>
        /\ error = "none"
        /\ NewFlux[RangeS] = flux0[RangeS]
        /\ NewFlux[RangeE] = flux0[RangeE]
        /\ \A k \in RangeS..(RangeE - 2) :
              RatSub(NewFlux[k + 1], NewFlux[k]) =
                  RatSub(NewFlux[k + 2], NewFlux[k + 1])

\* C10: linear_exciser is idempotent for a fixed region: when
\* excise_regions comes to a region equal to the one before it, the
\* second excision returns a spectrum with the flux of the first.
C10_Idempotent ==
    [][(/\ pc = "loop"
        /\ exciser = "linear_exciser"
        /\ 2 <= i /\ i <= Len(regions)
        /\ regions[i] = regions[i - 1])
       => (/\ pc' = "loop"
           /\ IsSpectrum1D(cur')
           /\ cur'.flux # cur.flux
           /\ heap'[cur'.flux] = heap[cur.flux])]_vars

\* excise_regions returned after excising the same region twice, and the
\* flux changed
C10_Witness ==
    /\ Done /\ op = "excise_regions" /\ exciser = "linear_exciser"
    /\ Len(regions) = 2
    /\ regions[1] = regions[2]
    /\ error = "none"
    /\ IsSpectrum1D(result)
    /\ NewFlux # flux0

=============================================================================
